---- MODULE Spec2Model ----
(***************************************************************************)
(* A model of flytekit/common/workflow.py: the workflow compiler           *)
(* (SdkWorkflow, PythonWorkflow), its registration against the control     *)
(* plane, sub-workflow closure extraction, launch plan building, calling   *)
(* a workflow as a node, and discovery of a class-defined workflow.        *)
(*                                                                         *)
(* The module holds one group of variables per part of the file and one    *)
(* specification per part (SpecRegister, SpecClosure, ...).  A             *)
(* specification leaves the variables of the other parts at their idle     *)
(* values.                                                                 *)
(***************************************************************************)
EXTENDS Integers, Sequences, FiniteSets, TLC

VARIABLES
    \* ---- the workflows' node lists (SdkWorkflow.nodes), by workflow
    wfnodes,
    \* ---- SdkWorkflow.register
    wf_id,            \* self._id of the workflow being registered
    old_id,           \* the local old_id of register
    id_to_register,   \* the local id_to_register of register
    reg_pc,           \* where register stands
    reg_ret,          \* what register returned
    reg_exc,          \* what register raised
    reg_pre_id,       \* the caller's reading of workflow.id before the call
    client_outcome,   \* what the client's create_workflow did in this call
    \* ---- SdkWorkflow.get_sub_workflows / serialize
    closure_out,      \* the outcome of the last get_sub_workflows / serialize
    \* ---- SdkWorkflow.__init__, construct_from_class_definition, promote_from_model
    nobj,             \* the SdkNode objects the caller built: id and upstream_nodes
    cw,               \* the outcome of the last construction
    tmpl,             \* a serialized WorkflowTemplate
    pw,               \* the outcome of promoting tmpl
    \* ---- _discover_workflow_components
    surface,          \* the class: its attributes and the containers they reach
    disc,             \* the outcome of discovery
    \* ---- PythonWorkflow.create_launch_plan, SdkWorkflow.create_launch_plan
    wf_inputs,        \* self._workflow_inputs: the declared Input objects
    in_name,          \* the name each Input object carries
    lp,               \* the outcome of the last create_launch_plan
    \* ---- SdkWorkflow.__call__
    calls             \* the calls made so far: arguments and outcome

regvars == <<wf_id, old_id, id_to_register, reg_pc, reg_ret, reg_exc, reg_pre_id,
             client_outcome>>
closvars == <<wfnodes, regvars, closure_out>>
compvars == <<nobj, cw, tmpl, pw>>
disvars == <<surface, disc>>
lpvars == <<wf_inputs, in_name, lp>>
callvars == <<calls>>
vars == <<closvars, compvars, disvars, lpvars, callvars>>
\* Everything outside registration and closure extraction, outside
\* construction and promotion, outside discovery, outside launch plan
\* building, and outside calls.
notclos == <<compvars, disvars, lpvars, callvars>>
notcomp == <<closvars, disvars, lpvars, callvars>>
notdis == <<closvars, compvars, lpvars, callvars>>
notlp == <<closvars, compvars, disvars, callvars>>
notcall == <<closvars, compvars, disvars, lpvars>>

\* Python's None: where the other values are strings, and (PyNone) where
\* they are records.  Unset is a slot of the model that holds nothing yet.
None == "None"
PyNone == [none |-> TRUE]
Unset == [unset |-> TRUE]

\* A call's outcome: a returned value or a raised exception.
Returned(v) == [raised |-> FALSE, value |-> v]
Raised(e) == [raised |-> TRUE, exc |-> e]

RECURSIVE SumLen(_, _)
SumLen(f, S) ==
    IF S = {} THEN 0
    ELSE LET x == CHOOSE y \in S : TRUE IN Len(f[x]) + SumLen(f, S \ {x})

(***************************************************************************)
(* Workflows and their nodes, as get_sub_workflows reads them.             *)
(***************************************************************************)

\* The compiled workflows of the model.  RootWf is the one operated on.  A
\* node is built by calling an existing workflow (SdkWorkflow.__call__), so a
\* workflow's nodes can only run workflows built before it: WfRank orders them.
Workflows == {"W0", "W1", "W2"}
RootWf == "W0"
WfRank == [w \in Workflows |-> CASE w = "W0" -> 0 [] w = "W1" -> 1 [] w = "W2" -> 2]

\* The most nodes declared over all workflows (SpecClosure), and the most in
\* the registered workflow's closure (SpecRegister).
MaxNodes == 3
MaxRegNodes == 2

\* n.workflow_node is None for a task or a branch node.  A workflow node
\* carries a launch plan reference (sub_workflow_ref None) or a sub-workflow
\* reference; executable_sdk_object is the in-memory executable.
TaskNode == [type |-> "task", workflow_node |-> None, sub_workflow_ref |-> None,
             executable_sdk_object |-> "task"]
BranchNode == [type |-> "branch", workflow_node |-> None, sub_workflow_ref |-> None,
               executable_sdk_object |-> None]
LaunchPlanNode == [type |-> "workflow", workflow_node |-> "wn", sub_workflow_ref |-> None,
                   executable_sdk_object |-> "launch_plan"]
SubWorkflowNode(e) == [type |-> "workflow", workflow_node |-> "wn", sub_workflow_ref |-> "ref",
                       executable_sdk_object |-> e]

\* entity_type_text of an executable: "Workflow" for an SdkWorkflow.
entity_type_text(e) ==
    IF e \in Workflows THEN "Workflow"
    ELSE IF e = "task" THEN "Task"
    ELSE "Launch Plan"

\* The nodes a workflow w can hold: the sub-workflow reference of a node may
\* have no executable (None) or one that is not a workflow ("task").
NodeChoices(w) ==
    {TaskNode, BranchNode, LaunchPlanNode}
    \cup {SubWorkflowNode(e) : e \in {None, "task"}}
    \cup {SubWorkflowNode(v) : v \in {u \in Workflows : WfRank[u] > WfRank[w]}}

TotalNodes == SumLen(wfnodes, Workflows)

\* result.append(n.executable_sdk_object); result.extend(<its sub-workflows>)
ExtendResult_PostOrder(result, w, subs) == result \o subs \o <<w>>
ExtendResult_NoRecursion(result, w, subs) == result \o <<w>>
ExtendResult(result, w, subs) == result \o <<w>> \o subs

\* The exception of line 184.
BadExecutable == "FlyteSystemException"

\* Lines 183-186: the else branch, result being what was gathered so far.
on_bad_executable_ReturnPartial(result) == Returned(result)
on_bad_executable(result) == Raised(BadExecutable)

RECURSIVE get_sub_workflows(_, _)
RECURSIVE gsw_loop(_, _, _)
\* The for loop of get_sub_workflows over the nodes ns still to visit.
gsw_loop(nodes, ns, result) ==
    IF ns = <<>> THEN Returned(result)
    ELSE LET n == Head(ns) IN
         IF n.workflow_node /= None /\ n.sub_workflow_ref /= None
         THEN IF n.executable_sdk_object /= None
                 /\ entity_type_text(n.executable_sdk_object) = "Workflow"
              THEN LET sub == get_sub_workflows(nodes, n.executable_sdk_object) IN
                   IF sub.raised THEN sub
                   ELSE gsw_loop(nodes, Tail(ns),
                                 ExtendResult(result, n.executable_sdk_object, sub.value))
              ELSE on_bad_executable(result)
         ELSE gsw_loop(nodes, Tail(ns), result)

\* SdkWorkflow.get_sub_workflows of workflow w, the node lists being nodes.
get_sub_workflows(nodes, w) == gsw_loop(nodes, nodes[w], <<>>)

(***************************************************************************)
(* SdkWorkflow.register                                                    *)
(***************************************************************************)

Projects == {"p1", "p2"}
Domains == {"d1"}
Names == {"n1", "n2"}
Versions == {"v1"}

Identifier(resource_type, project, domain, name, version) ==
    [resource_type |-> resource_type, project |-> project, domain |-> domain,
     name |-> name, version |-> version]

WorkflowIds ==
    {Identifier("WORKFLOW", p, d, n, v) : p \in Projects, d \in Domains,
                                          n \in Names, v \in Versions}

\* str(id_to_register)
Str(id) == [str |-> id]

\* What the external client's create_workflow, and obtaining the client, can do.
AlreadyExists == "FlyteEntityAlreadyExistsException"
ClientOutcomes == {"ok", AlreadyExists, "Exception"}

\* self._id after "except Exception:" (line 292).
RolledBackId_Keep(old, new) == new
RolledBackId(old, new) == old

\* The except clauses of register (lines 289-293) for an exception exc raised
\* inside the try block.
RegisterExcept(exc) ==
    IF exc = AlreadyExists
    THEN \* pass: the function falls off its end
         /\ reg_ret' = PyNone
         /\ reg_exc' = None
         /\ reg_pc' = "returned"
         /\ UNCHANGED wf_id
    ELSE /\ wf_id' = RolledBackId(old_id, wf_id)
         /\ reg_exc' = exc
         /\ reg_ret' = Unset
         /\ reg_pc' = "raised"

\* self._id once line 276 has run, before the try block.
SwappedId_AfterCall(old, new) == old
SwappedId(old, new) == new

\* Lines 267-276: validate() is a no-op; the id is built and swapped in.
RegisterEnter(project, domain, name, version) ==
    /\ reg_pc = "idle"
    /\ id_to_register' = Identifier("WORKFLOW", project, domain, name, version)
    /\ old_id' = wf_id
    /\ wf_id' = SwappedId(wf_id, id_to_register')
    /\ reg_pc' = "try"
    /\ reg_ret' = Unset
    /\ reg_exc' = None
    /\ reg_pre_id' = wf_id
    /\ client_outcome' = None
    /\ UNCHANGED <<wfnodes, closure_out>> /\ UNCHANGED notclos

\* Line 278: obtaining the client succeeds or raises.
RegisterGetClient(ok) ==
    /\ reg_pc = "try"
    /\ IF ok
       THEN /\ reg_pc' = "client"
            /\ UNCHANGED <<wf_id, reg_ret, reg_exc>>
       ELSE RegisterExcept("Exception")
    /\ UNCHANGED <<wfnodes, old_id, id_to_register, closure_out, reg_pre_id, client_outcome>> /\ UNCHANGED notclos

\* Line 279: sub_workflows = self.get_sub_workflows()
RegisterClosure ==
    /\ reg_pc = "client"
    /\ LET sub == get_sub_workflows(wfnodes, RootWf) IN
       IF sub.raised
       THEN RegisterExcept(sub.exc) /\ UNCHANGED closure_out
       ELSE /\ reg_pc' = "closure"
            /\ closure_out' = sub
            /\ UNCHANGED <<wf_id, reg_ret, reg_exc>>
    /\ UNCHANGED <<wfnodes, old_id, id_to_register, reg_pre_id, client_outcome>> /\ UNCHANGED notclos

\* Lines 280-288: the network call, then the success path.
RegisterCreateWorkflow(outcome) ==
    /\ reg_pc = "closure"
    /\ IF outcome = "ok"
       THEN /\ wf_id' = id_to_register
            /\ reg_ret' = Str(id_to_register)
            /\ reg_exc' = None
            /\ reg_pc' = "returned"
       ELSE RegisterExcept(outcome)
    /\ client_outcome' = outcome
    /\ UNCHANGED <<wfnodes, old_id, id_to_register, closure_out, reg_pre_id>> /\ UNCHANGED notclos

\* The caller has the result; the workflow can be registered again.
RegisterExit ==
    /\ reg_pc \in {"returned", "raised"}
    /\ reg_pc' = "idle"
    /\ old_id' = Unset
    /\ id_to_register' = Unset
    /\ reg_ret' = Unset
    /\ reg_exc' = None
    /\ closure_out' = Unset
    /\ reg_pre_id' = Unset
    /\ client_outcome' = None
    /\ UNCHANGED <<wfnodes, wf_id>> /\ UNCHANGED notclos

\* A node is appended to workflow w's node list while the workflows are built,
\* at most bound nodes in all.
DeclareNode(w, n, bound) ==
    /\ reg_pc = "idle"
    /\ closure_out = Unset
    /\ TotalNodes < bound
    /\ wfnodes' = [wfnodes EXCEPT ![w] = Append(@, n)]
    /\ UNCHANGED <<wf_id, old_id, id_to_register, reg_pc, reg_ret, reg_exc, closure_out,
                   reg_pre_id, client_outcome>> /\ UNCHANGED notclos


RegisterIdle ==
    /\ old_id = Unset
    /\ id_to_register = Unset
    /\ reg_pc = "idle"
    /\ reg_ret = Unset
    /\ reg_exc = None
    /\ reg_pre_id = Unset
    /\ client_outcome = None

\* No node object, nothing constructed, serialized or promoted.
NodeObjs == {"o1", "o2"}
CompileIdle ==
    /\ nobj = [o \in NodeObjs |-> [id |-> None, upstream_nodes |-> {}]]
    /\ cw = Unset
    /\ tmpl = Unset
    /\ pw = Unset

DiscoverIdle ==
    /\ surface = [attrs |-> [n \in {"a", "b"} |-> "S"], list |-> <<>>, dict |-> <<>>]
    /\ disc = Unset

\* The Input objects of the model, by identity, and the name each was
\* declared under.  No launch plan built.
InputObjs == {"i1", "i2", "i3"}
DeclaredName == [i \in InputObjs |-> CASE i = "i1" -> "a" [] i = "i2" -> "b" [] i = "i3" -> "c"]
LaunchIdle ==
    /\ wf_inputs = <<>>
    /\ in_name = DeclaredName
    /\ lp = Unset

\* No call made.
CallIdle == calls = <<>>

InitRegister ==
    /\ wfnodes = [w \in Workflows |-> <<>>]
    /\ wf_id \in WorkflowIds
    /\ RegisterIdle
    /\ closure_out = Unset
    /\ CompileIdle
    /\ DiscoverIdle
    /\ LaunchIdle
    /\ CallIdle

NextRegister ==
    \/ \E w \in Workflows : \E n \in NodeChoices(w) : DeclareNode(w, n, MaxRegNodes)
    \/ \E p \in Projects, d \in Domains, n \in Names, v \in Versions :
          RegisterEnter(p, d, n, v)
    \/ \E ok \in BOOLEAN : RegisterGetClient(ok)
    \/ RegisterClosure
    \/ \E outcome \in ClientOutcomes : RegisterCreateWorkflow(outcome)
    \/ RegisterExit

SpecRegister == InitRegister /\ [][NextRegister]_vars

(***************************************************************************)
(* SdkWorkflow.get_sub_workflows and SdkWorkflow.serialize, as operations  *)
(***************************************************************************)

\* WorkflowSpec(self, sub_workflows).to_flyte_idl(): the primary template and
\* the flat list of sub-workflow templates, in the closure's order.
WorkflowSpec(w, sub_workflows) == [template |-> w, sub_workflows |-> sub_workflows]

GetSubWorkflows ==
    /\ closure_out = Unset
    /\ closure_out' = [op |-> "get_sub_workflows", out |-> get_sub_workflows(wfnodes, RootWf)]
    /\ UNCHANGED <<wfnodes, regvars>> /\ UNCHANGED notclos

\* Lines 303-307.
Serialize ==
    /\ closure_out = Unset
    /\ LET sub == get_sub_workflows(wfnodes, RootWf) IN
       closure_out' = [op |-> "serialize",
                       out |-> IF sub.raised THEN sub
                               ELSE Returned(WorkflowSpec(RootWf, sub.value))]
    /\ UNCHANGED <<wfnodes, regvars>> /\ UNCHANGED notclos

\* The caller drops the result.
ClosureDiscard ==
    /\ closure_out /= Unset
    /\ closure_out' = Unset
    /\ UNCHANGED <<wfnodes, regvars>> /\ UNCHANGED notclos

InitClosure ==
    /\ wfnodes = [w \in Workflows |-> <<>>]
    /\ wf_id = Identifier("WORKFLOW", "p1", "d1", "n1", "v1")
    /\ RegisterIdle
    /\ closure_out = Unset
    /\ CompileIdle
    /\ DiscoverIdle
    /\ LaunchIdle
    /\ CallIdle

NextClosure ==
    \/ \E w \in Workflows : \E n \in NodeChoices(w) : DeclareNode(w, n, MaxNodes)
    \/ GetSubWorkflows
    \/ Serialize
    \/ ClosureDiscard

SpecClosure == InitClosure /\ [][NextClosure]_vars

\* The three callers of the closure on one workflow: get_sub_workflows itself,
\* serialize and register, one operation at a time.
InitClosureCallers == InitClosure

NextClosureCallers ==
    \/ \E w \in Workflows : \E n \in NodeChoices(w) : DeclareNode(w, n, MaxNodes)
    \/ reg_pc = "idle" /\ GetSubWorkflows
    \/ reg_pc = "idle" /\ Serialize
    \/ reg_pc = "idle" /\ ClosureDiscard
    \/ closure_out = Unset /\ RegisterEnter("p2", "d1", "n2", "v1")
    \/ \E ok \in BOOLEAN : RegisterGetClient(ok)
    \/ RegisterClosure
    \/ \E outcome \in ClientOutcomes : RegisterCreateWorkflow(outcome)
    \/ RegisterExit

SpecClosureCallers == InitClosureCallers /\ [][NextClosureCallers]_vars

(***************************************************************************)
(* SdkWorkflow.__init__, PythonWorkflow.construct_from_class_definition,   *)
(* SdkWorkflow.serialize (the template) and SdkWorkflow.promote_from_model *)
(***************************************************************************)

\* _constants.START_NODE_ID and _constants.END_NODE_ID (line 222).
START_NODE_ID == "start-node"
END_NODE_ID == "end-node"

\* The ids a node object can carry, besides None (no id assigned).
NodeIds == {"n1", "n2", START_NODE_ID, END_NODE_ID}

\* The longest nodes argument of a construction.
MaxWfNodes == 2

NodeGraphs == [NodeObjs -> [id : NodeIds \cup {None}, upstream_nodes : SUBSET NodeObjs]]
NodeLists == UNION {[1..k -> NodeObjs] : k \in 0..MaxWfNodes}

\* An optional argument: left out (None) or given.
Absent == <<>>
Given(v) == <<v>>

\* The node object o as the constructor reads it: its id and, of each of its
\* upstream nodes, the id.
SdkNode(o) ==
    [id |-> nobj[o].id,
     upstream_nodes |-> {[id |-> nobj[u].id] : u \in nobj[o].upstream_nodes}]
SdkNodes(ns) == [i \in 1..Len(ns) |-> SdkNode(ns[i])]

\* sorted(n.id for n in self.upstream_nodes), as a set
upstream_node_ids(n) == {u.id : u \in n.upstream_nodes}

\* promise.Input and Output, as far as the constructor reads them.
Input(name, var) == [name |-> name, var |-> var]
Output(name, var, binding_data) == [name |-> name, var |-> var, binding_data |-> binding_data]

\* The inputs and outputs arguments of the model's constructions.
IOChoices ==
    {[inputs |-> <<>>, outputs |-> <<>>],
     [inputs |-> <<Input("x", "Int")>>, outputs |-> <<Output("result", "Int", "n1.y")>>],
     [inputs |-> <<Input("x", "Int"), Input("x", "Str")>>,
      outputs |-> <<Output("r", "Int", "n1.y"), Output("r", "Str", "n2.z")>>]}

\* {v.name: v.var for v in vs}: a later entry of the same name wins.  A dict is
\* modelled as its set of (key, value) pairs.
DictOf(vs) ==
    {<<vs[i].name, vs[i].var>> : i \in {j \in 1..Len(vs) :
                                           \A k \in (j + 1)..Len(vs) : vs[k].name /= vs[j].name}}
TypedInterface(inputs, outputs) == [inputs |-> inputs, outputs |-> outputs]

\* [Binding(v.name, v.binding_data) for v in outputs]
Binding(var, binding) == [var |-> var, binding |-> binding]
BindingsOf(outputs) ==
    [i \in 1..Len(outputs) |-> Binding(outputs[i].name, outputs[i].binding_data)]

\* uuid4().hex, and the configured project, domain and version.
Uuids == {"u1", "u2"}
GeneratedId(uuid) == Identifier("WORKFLOW", "cfg_project", "cfg_domain", uuid, "cfg_version")

\* Lines 110-117: some node's upstream node has no id.
upstream_check_OwnId(nodes) ==
    \E i \in 1..Len(nodes) : nodes[i].id = None
upstream_check_FirstNode(nodes) ==
    Len(nodes) > 0 /\ \E upstream \in nodes[1].upstream_nodes : upstream.id = None
upstream_check(nodes) ==
    \E i \in 1..Len(nodes) : \E upstream \in nodes[i].upstream_nodes : upstream.id = None

\* Lines 430-437: the same check in construct_from_class_definition.
class_upstream_check(nodes) ==
    \E i \in 1..Len(nodes) : \E upstream \in nodes[i].upstream_nodes : upstream.id = None

StructuralError == "FlyteAssertion"

\* SdkWorkflow.__init__.  steps lists the defaults synthesized before the
\* constructor returned or raised.
SdkWorkflow_init(inputs, outputs, nodes, id, interface, output_bindings, uuid) ==
    IF upstream_check(nodes)
    THEN [out |-> Raised(StructuralError), steps |-> <<>>]
    ELSE LET id2 == IF id /= Absent THEN id[1] ELSE GeneratedId(uuid)
             interface2 == IF interface /= Absent THEN interface[1]
                           ELSE TypedInterface(DictOf(inputs[1]), DictOf(outputs[1]))
             output_bindings2 == IF output_bindings /= Absent THEN output_bindings[1]
                                 ELSE BindingsOf(outputs[1])
         IN [out |-> Returned([id |-> id2, interface |-> interface2, nodes |-> nodes,
                               outputs |-> output_bindings2, user_inputs |-> inputs]),
             steps |-> (IF id = Absent THEN <<"id">> ELSE <<>>)
                       \o (IF interface = Absent THEN <<"interface">> ELSE <<>>)
                       \o (IF output_bindings = Absent THEN <<"output_bindings">> ELSE <<>>)]

\* PythonWorkflow.construct_from_class_definition (lines 430-464).
construct_from_class_definition(inputs, outputs, nodes, uuid) ==
    IF class_upstream_check(nodes)
    THEN [out |-> Raised(StructuralError), steps |-> <<>>]
    ELSE LET id == GeneratedId(uuid)
             interface == TypedInterface(DictOf(inputs), DictOf(outputs))
             output_bindings == BindingsOf(outputs)
             sdk_workflow == SdkWorkflow_init(Absent, Absent, nodes, Given(id),
                                              Given(interface), Given(output_bindings), uuid)
         IN [out |-> IF sdk_workflow.out.raised THEN sdk_workflow.out
                     ELSE Returned([flyte_workflow |-> sdk_workflow.out.value,
                                    workflow_inputs |-> inputs, nodes |-> nodes]),
             steps |-> <<"id", "interface", "output_bindings">> \o sdk_workflow.steps]

\* The SdkWorkflow of a construction's result.
SdkWorkflowOf(v) == IF "flyte_workflow" \in DOMAIN v THEN v.flyte_workflow ELSE v

\* WorkflowTemplate.to_flyte_idl, read back: the template of serialize().  A
\* node is written as its id and the ids of its upstream nodes.
WorkflowTemplate(wf) ==
    [id |-> wf.id,
     interface |-> wf.interface,
     nodes |-> [i \in 1..Len(wf.nodes) |->
                   [id |-> wf.nodes[i].id,
                    upstream_node_ids |-> upstream_node_ids(wf.nodes[i])]],
     outputs |-> wf.outputs]

\* get_non_system_nodes (line 222).
get_non_system_nodes(nodes) ==
    SelectSeq(nodes, LAMBDA n : n.id \notin {START_NODE_ID, END_NODE_ID})

\* SdkNode.promote_from_model: the node keeps its id and its upstream ids.
SdkNode_promote_from_model(n) == [id |-> n.id, upstream_node_ids |-> n.upstream_node_ids]

\* The keys of a dict built from the sequence, in insertion order.
RECURSIVE KeyOrder(_, _)
KeyOrder(ns, seen) ==
    IF ns = <<>> THEN <<>>
    ELSE IF Head(ns).id \in seen THEN KeyOrder(Tail(ns), seen)
    ELSE <<Head(ns).id>> \o KeyOrder(Tail(ns), seen \cup {Head(ns).id})

\* What node_map[upstream_id] raises for a key that is not in the dict.
LookupError == "KeyError"

\* SdkWorkflow.promote_from_model (lines 236-257).
promote_from_model(base_model) ==
    LET base_model_non_system_nodes == get_non_system_nodes(base_model.nodes)
        nn == base_model_non_system_nodes
        keys == {nn[i].id : i \in 1..Len(nn)}
        \* the dict comprehension: the last node of an id stands
        node_map == [k \in keys |->
                        LET last == CHOOSE i \in 1..Len(nn) :
                                       /\ nn[i].id = k
                                       /\ \A j \in (i + 1)..Len(nn) : nn[j].id /= k
                        IN SdkNode_promote_from_model(nn[last])]
        missing == \E i \in 1..Len(nn) :
                      \E upstream_id \in node_map[nn[i].id].upstream_node_ids :
                          upstream_id \notin keys
        \* current << upstream_node, for every upstream id
        wired(k) == [id |-> k,
                     upstream_nodes |-> {[id |-> node_map[u].id] :
                                            u \in node_map[k].upstream_node_ids}]
        order == KeyOrder(nn, {})
        nodes == [i \in 1..Len(order) |-> wired(order[i])]
    IN IF missing THEN Raised(LookupError)
       ELSE SdkWorkflow_init(Absent, Absent, nodes, Given(base_model.id),
                             Given(base_model.interface), Given(base_model.outputs),
                             "unused").out

\* SdkWorkflow(inputs, outputs, nodes, id=...)
Construct(ns, io, id, uuid) ==
    /\ cw = Unset
    /\ tmpl = Unset
    /\ cw' = [op |-> "SdkWorkflow", nodes |-> ns,
              res |-> SdkWorkflow_init(Given(io.inputs), Given(io.outputs), SdkNodes(ns), id,
                                       Absent, Absent, uuid)]
    /\ UNCHANGED <<nobj, tmpl, pw>>
    /\ UNCHANGED notcomp

\* PythonWorkflow.construct_from_class_definition(inputs, outputs, nodes)
ConstructFromClass(ns, io, uuid) ==
    /\ cw = Unset
    /\ tmpl = Unset
    /\ cw' = [op |-> "construct_from_class_definition", nodes |-> ns,
              res |-> construct_from_class_definition(io.inputs, io.outputs, SdkNodes(ns), uuid)]
    /\ UNCHANGED <<nobj, tmpl, pw>>
    /\ UNCHANGED notcomp

\* serialize() of the constructed workflow: the primary template.
SerializeTemplate ==
    /\ cw /= Unset
    /\ ~cw.res.out.raised
    /\ tmpl = Unset
    /\ tmpl' = [source |-> "serialize",
                template |-> WorkflowTemplate(SdkWorkflowOf(cw.res.out.value))]
    /\ UNCHANGED <<nobj, cw, pw>>
    /\ UNCHANGED notcomp

\* A template from the control plane (fetch, lines 204-212): any node list.
FetchTemplate(ns, io) ==
    /\ cw = Unset
    /\ tmpl = Unset
    /\ \A i \in 1..Len(ns) : nobj[ns[i]].id /= None
    /\ \A i \in 1..Len(ns) : \A u \in nobj[ns[i]].upstream_nodes : nobj[u].id /= None
    /\ tmpl' = [source |-> "admin",
                template |-> [id |-> GeneratedId("u1"),
                              interface |-> TypedInterface(DictOf(io.inputs), DictOf(io.outputs)),
                              nodes |-> [i \in 1..Len(ns) |->
                                            [id |-> nobj[ns[i]].id,
                                             upstream_node_ids |->
                                                 upstream_node_ids(SdkNode(ns[i]))]],
                              outputs |-> BindingsOf(io.outputs)]]
    /\ UNCHANGED <<nobj, cw, pw>>
    /\ UNCHANGED notcomp

\* promote_from_model(template, {}, {})
Promote ==
    /\ tmpl /= Unset
    /\ pw = Unset
    /\ pw' = promote_from_model(tmpl.template)
    /\ UNCHANGED <<nobj, cw, tmpl>>
    /\ UNCHANGED notcomp

\* The caller drops what it built.
CompileDiscard ==
    /\ cw /= Unset \/ tmpl /= Unset
    /\ cw' = Unset
    /\ tmpl' = Unset
    /\ pw' = Unset
    /\ UNCHANGED nobj
    /\ UNCHANGED notcomp

ClosureIdle ==
    /\ wfnodes = [w \in Workflows |-> <<>>]
    /\ wf_id = Identifier("WORKFLOW", "p1", "d1", "n1", "v1")
    /\ RegisterIdle
    /\ closure_out = Unset

InitCompile ==
    /\ nobj \in NodeGraphs
    /\ cw = Unset
    /\ tmpl = Unset
    /\ pw = Unset
    /\ ClosureIdle
    /\ DiscoverIdle
    /\ LaunchIdle
    /\ CallIdle

NextCompile ==
    \/ \E ns \in NodeLists, io \in IOChoices, uuid \in Uuids :
          \E id \in {Absent, Given(Identifier("WORKFLOW", "p1", "d1", "n1", "v1"))} :
              Construct(ns, io, id, uuid)
    \/ \E ns \in NodeLists, io \in IOChoices, uuid \in Uuids : ConstructFromClass(ns, io, uuid)
    \/ SerializeTemplate
    \/ \E ns \in NodeLists, io \in IOChoices : FetchTemplate(ns, io)
    \/ Promote
    \/ CompileDiscard

SpecCompile == InitCompile /\ [][NextCompile]_vars

(***************************************************************************)
(* _discover_workflow_components                                           *)
(***************************************************************************)

\* The objects of a declaration surface, by identity: a node, an input, an
\* output, a sequence (a list, a tuple or a set, in iteration order), a dict
\* and a scalar (a string).
Refs == {"N1", "I1", "O1", "L1", "D1", "S"}
TypeOf(ref) ==
    CASE ref = "N1" -> "SdkNode"
      [] ref = "I1" -> "Input"
      [] ref = "O1" -> "Output"
      [] ref = "L1" -> "list"
      [] ref = "D1" -> "dict"
      [] OTHER -> "str"

\* dir(workflow_class): the attribute names, sorted.
AttrNames == <<"a", "b">>
AttrSet == {AttrNames[i] : i \in 1..Len(AttrNames)}

\* The most elements of the sequence.
MaxElems == 2

\* What the sequence and the dict (of at most one entry) can hold.  A dict key
\* is hashable: not a list, not a dict.
ListContents == UNION {[1..k -> Refs \ {"S"}] : k \in 0..MaxElems}
DictContents == {<<>>} \cup {<<[key |-> k, value |-> v]>> : k \in {"N1", "I1", "O1", "S"},
                                                           v \in Refs \ {"D1"}}
Surfaces == [attrs : [AttrSet -> Refs], list : ListContents, dict : DictContents]

\* A name is the sequence of its pieces: the attribute's name, then "[", an
\* index or a key, and "]" for every container on the way.
TopLevelName(attribute_name) == <<attribute_name>>

\* "{}[{}]".format(attribute_name, index)
assign_indexed_attribute_name(attribute_name, index) == attribute_name \o <<"[", index, "]">>

\* str() of a dict key.
KeyText(k) == IF k = "S" THEN "'k'" ELSE k

\* Lines 615 and 622: the name is one of the top level attributes.
in_top_level_attributes_Always(attribute_name, top_level_attributes) == TRUE
in_top_level_attributes(attribute_name, top_level_attributes) ==
    attribute_name \in top_level_attributes

\* Output.rename_and_return_reference (lines 47-49), and its counterparts
\* Input.rename_and_return_reference and SdkNode.assign_id_and_return: the
\* object takes the name and is returned itself.
Output_rename_and_return_reference(names, obj, new_name) == [names EXCEPT ![obj] = new_name]
Input_rename_and_return_reference(names, obj, new_name) == [names EXCEPT ![obj] = new_name]
assign_id_and_return(names, obj, id) == [names EXCEPT ![obj] = id]

\* Lines 606-607: an object seen before is skipped.
OnRevisit_Rename(st, attribute_name, current_obj) ==
    IF TypeOf(current_obj) \in {"SdkNode", "Input", "Output"}
    THEN [st EXCEPT !.names[current_obj] = attribute_name]
    ELSE st
OnRevisit(st, attribute_name, current_obj) == st

PlacementError == "FlyteValueException"

\* The while loop of lines 602-640 over the queue q of (name, object) pairs.
RECURSIVE discover_loop(_, _, _, _, _)
discover_loop(s, top_level_attributes, q, visited_obj_ids, st) ==
    IF q = <<>> THEN Returned(st)
    ELSE
    LET attribute_name == Head(q)[1]
        current_obj == Head(q)[2]
        visited == visited_obj_ids \cup {current_obj}
        type == TypeOf(current_obj)
    IN
    IF current_obj \in visited_obj_ids
    THEN discover_loop(s, top_level_attributes, Tail(q), visited_obj_ids,
                       OnRevisit(st, attribute_name, current_obj))
    ELSE IF type = "SdkNode"
    THEN discover_loop(s, top_level_attributes, Tail(q), visited,
                       [st EXCEPT !.nodes = Append(@, current_obj),
                                  !.names = assign_id_and_return(@, current_obj,
                                                                 attribute_name)])
    ELSE IF type = "Input"
    THEN IF ~in_top_level_attributes(attribute_name, top_level_attributes)
         THEN [raised |-> TRUE, exc |-> PlacementError, at |-> attribute_name]
         ELSE discover_loop(s, top_level_attributes, Tail(q), visited,
                            [st EXCEPT !.inputs = Append(@, current_obj),
                                       !.names = Input_rename_and_return_reference(
                                                     @, current_obj, attribute_name)])
    ELSE IF type = "Output"
    THEN IF ~in_top_level_attributes(attribute_name, top_level_attributes)
         THEN [raised |-> TRUE, exc |-> PlacementError, at |-> attribute_name]
         ELSE discover_loop(s, top_level_attributes, Tail(q), visited,
                            [st EXCEPT !.outputs = Append(@, current_obj),
                                       !.names = Output_rename_and_return_reference(
                                                     @, current_obj, attribute_name)])
    ELSE IF type = "list"
    THEN discover_loop(s, top_level_attributes,
                       Tail(q) \o [i \in 1..Len(s.list) |->
                                      <<assign_indexed_attribute_name(attribute_name,
                                                                      ToString(i - 1)),
                                        s.list[i]>>],
                       visited, st)
    ELSE IF type = "dict"
    THEN discover_loop(s, top_level_attributes,
                       Tail(q)
                       \o [i \in 1..Len(s.dict) |->
                              <<assign_indexed_attribute_name(attribute_name,
                                                              KeyText(s.dict[i].key)),
                                s.dict[i].key>>]
                       \o [i \in 1..Len(s.dict) |->
                              <<assign_indexed_attribute_name(attribute_name,
                                                              KeyText(s.dict[i].key)),
                                s.dict[i].value>>],
                       visited, st)
    ELSE discover_loop(s, top_level_attributes, Tail(q), visited, st)

\* _discover_workflow_components(workflow_class), lines 589-641.  names holds
\* the name (or id) each object carries at the end, <<>> when it got none.
discover_workflow_components(s) ==
    discover_loop(s,
                  {TopLevelName(AttrNames[i]) : i \in 1..Len(AttrNames)},
                  [i \in 1..Len(AttrNames) |->
                      <<TopLevelName(AttrNames[i]), s.attrs[AttrNames[i]]>>],
                  {},
                  [inputs |-> <<>>, outputs |-> <<>>, nodes |-> <<>>,
                   names |-> [r \in Refs |-> <<>>]])

Discover ==
    /\ disc = Unset
    /\ disc' = discover_workflow_components(surface)
    /\ UNCHANGED surface
    /\ UNCHANGED notdis

InitDiscover ==
    /\ surface \in Surfaces
    /\ disc = Unset
    /\ ClosureIdle
    /\ CompileIdle
    /\ LaunchIdle
    /\ CallIdle

NextDiscover == Discover

SpecDiscover == InitDiscover /\ [][NextDiscover]_vars

(***************************************************************************)
(* create_launch_plan                                                      *)
(***************************************************************************)

\* A Python dict: its items in insertion order, the keys distinct.
Keys(d) == {d[i][1] : i \in DOMAIN d}
Items(d) == {d[i] : i \in DOMAIN d}
Get(d, k) == d[CHOOSE i \in DOMAIN d : d[i][1] = k][2]
DictsOver(items) ==
    {d \in UNION {[1..m -> items] : m \in 0..Cardinality({kv[1] : kv \in items})} :
        \A i, j \in DOMAIN d : d[i][1] = d[j][1] => i = j}
Dicts(K, V) == DictsOver(K \X V)

\* d[k] = v: a key already there keeps its place.
dict_setitem(d, k, v) ==
    IF k \in Keys(d) THEN [i \in DOMAIN d |-> IF d[i][1] = k THEN <<k, v>> ELSE d[i]]
    ELSE Append(d, <<k, v>>)

\* d.update(other)
RECURSIVE dict_update(_, _)
dict_update(d, other) ==
    IF other = <<>> THEN d
    ELSE dict_update(dict_setitem(d, Head(other)[1], Head(other)[2]), Tail(other))

\* `x or {}` of an optional dict argument.
OrEmpty(x) == IF x = Absent THEN <<>> ELSE x[1]

\* The keys and values of the launch plan arguments of the model, and the
\* arguments themselves.
LpKeys == {"a", "b"}
FixedValues == {1}
DefaultInputArgs == {Absent} \cup {Given(d) : d \in Dicts(LpKeys, InputObjs)}
FixedInputArgs == {Absent} \cup {Given(d) : d \in Dicts(LpKeys, FixedValues)}
Roles == {None, "role"}
IamRoles == {None, "iam"}
ServiceAccounts == {None, "ksa"}

\* Line 534: {v.name: v for v in self._workflow_inputs if v.name not in fixed_inputs}
RECURSIVE declared_candidates(_, _, _, _)
declared_candidates(inputs, names, fixed_inputs, d) ==
    IF inputs = <<>> THEN d
    ELSE LET v == Head(inputs) IN
         declared_candidates(Tail(inputs), names, fixed_inputs,
                             IF names[v] \notin Keys(fixed_inputs)
                             THEN dict_setitem(d, names[v], v) ELSE d)

\* Lines 544-547: user_input.rename_and_return_reference(k) for the items of
\* the merged dict, in their order.
RECURSIVE rename_default_inputs(_, _)
rename_default_inputs(items, names) ==
    IF items = <<>> THEN names
    ELSE rename_default_inputs(Tail(items),
                               Input_rename_and_return_reference(names, Head(items)[2],
                                                                 Head(items)[1]))

AuthRole(assumable_iam_role, kubernetes_service_account) ==
    [assumable_iam_role |-> assumable_iam_role,
     kubernetes_service_account |-> kubernetes_service_account]

\* The launch plan classes keep what they are given.
SdkRunnableLaunchPlan(sdk_workflow, default_inputs, fixed_inputs, auth_role) ==
    [cls |-> "SdkRunnableLaunchPlan", sdk_workflow |-> sdk_workflow,
     default_inputs |-> default_inputs, fixed_inputs |-> fixed_inputs,
     auth_role |-> auth_role]
ParameterMap(parameters) == [parameters |-> parameters]
SdkLaunchPlan(workflow_id, default_inputs, fixed_inputs, auth_role) ==
    [cls |-> "SdkLaunchPlan", workflow_id |-> workflow_id,
     default_inputs |-> default_inputs, fixed_inputs |-> fixed_inputs,
     auth_role |-> auth_role]

\* PythonWorkflow.create_launch_plan, lines 531-554: the outcome and the
\* names the Input objects carry afterwards.
PythonWorkflow_create_launch_plan(inputs, names, default_inputs, fixed_inputs, role, assumable_iam_role, kubernetes_service_account) ==
    IF role /= None /\ (assumable_iam_role /= None \/ kubernetes_service_account /= None)
    THEN [out |-> Raised("ValueError"), names |-> names]
    ELSE LET fixed == OrEmpty(fixed_inputs)
             merged_default_inputs ==
                 dict_update(declared_candidates(inputs, names, fixed, <<>>),
                             OrEmpty(default_inputs))
             auth_role == AuthRole(IF role /= None THEN role ELSE assumable_iam_role,
                                   kubernetes_service_account)
         IN [out |-> Returned(SdkRunnableLaunchPlan("self", merged_default_inputs, fixed,
                                                    auth_role)),
             names |-> rename_default_inputs(merged_default_inputs, names)]

\* self.interface.inputs of the workflow: the declared inputs, by the names
\* they were declared under.
interface_inputs(inputs) == [i \in DOMAIN inputs |-> <<DeclaredName[inputs[i]], "Int">>]

\* pack_python_std_map_to_literal_map(fixed_inputs, types): each value as a
\* literal of the type the interface declares for its name.
pack_python_std_map_to_literal_map(fixed_inputs, types) ==
    [literals |-> [i \in DOMAIN fixed_inputs |->
                      <<fixed_inputs[i][1],
                        [scalar |-> fixed_inputs[i][2],
                         type |-> Get(types, fixed_inputs[i][1])]>>]]

\* SdkWorkflow.create_launch_plan, lines 339-361.
SdkWorkflow_create_launch_plan(inputs, default_inputs, fixed_inputs, auth_role) ==
    LET fixed == OrEmpty(fixed_inputs)
        types == SelectSeq(interface_inputs(inputs), LAMBDA kv : kv[1] \in Keys(fixed))
        fixed_launch_plan_inputs == pack_python_std_map_to_literal_map(fixed, types)
    IN Returned(SdkLaunchPlan(None, ParameterMap(default_inputs), fixed_launch_plan_inputs,
                              auth_role))

CreateLaunchPlan(default_inputs, fixed_inputs, role, assumable_iam_role, kubernetes_service_account) ==
    /\ lp = Unset
    /\ LET r == PythonWorkflow_create_launch_plan(wf_inputs, in_name, default_inputs,
                                                  fixed_inputs, role, assumable_iam_role,
                                                  kubernetes_service_account)
       IN /\ lp' = [op |-> "PythonWorkflow.create_launch_plan",
                    default_inputs |-> OrEmpty(default_inputs),
                    fixed_inputs |-> OrEmpty(fixed_inputs),
                    names_before |-> in_name,
                    out |-> r.out]
          /\ in_name' = r.names
    /\ UNCHANGED wf_inputs
    /\ UNCHANGED notlp

\* The fixed inputs name inputs of the interface, so that each has a type to
\* be packed with.
SdkCreateLaunchPlan(default_inputs, fixed_inputs, auth_role) ==
    /\ lp = Unset
    /\ Keys(OrEmpty(fixed_inputs)) \subseteq Keys(interface_inputs(wf_inputs))
    /\ lp' = [op |-> "SdkWorkflow.create_launch_plan",
              default_inputs |-> default_inputs,
              fixed_inputs |-> OrEmpty(fixed_inputs),
              names_before |-> in_name,
              out |-> SdkWorkflow_create_launch_plan(wf_inputs, default_inputs,
                                                     fixed_inputs, auth_role)]
    /\ UNCHANGED <<wf_inputs, in_name>>
    /\ UNCHANGED notlp

\* The caller drops the launch plan; the Input objects keep their names.
LaunchDiscard ==
    /\ lp /= Unset
    /\ lp' = Unset
    /\ UNCHANGED <<wf_inputs, in_name>>
    /\ UNCHANGED notlp

InitLaunch ==
    /\ wf_inputs \in {<<>>, <<"i1">>, <<"i1", "i2">>}
    /\ in_name = DeclaredName
    /\ lp = Unset
    /\ ClosureIdle
    /\ CompileIdle
    /\ DiscoverIdle
    /\ CallIdle

NextLaunch ==
    \/ \E default_inputs \in DefaultInputArgs, fixed_inputs \in FixedInputArgs :
          \E role \in Roles, assumable_iam_role \in IamRoles,
             kubernetes_service_account \in ServiceAccounts :
              CreateLaunchPlan(default_inputs, fixed_inputs, role, assumable_iam_role,
                               kubernetes_service_account)
    \/ \E default_inputs \in Dicts(LpKeys, InputObjs), fixed_inputs \in FixedInputArgs :
          \E assumable_iam_role \in IamRoles :
              SdkCreateLaunchPlan(default_inputs, fixed_inputs,
                                  AuthRole(assumable_iam_role, None))
    \/ LaunchDiscard

SpecLaunch == InitLaunch /\ [][NextLaunch]_vars

(***************************************************************************)
(* SdkWorkflow.__call__                                                    *)
(***************************************************************************)

\* The keyword names of the model's calls, in the order Python compares the
\* strings, and the arguments: a name with a literal or with a reference to a
\* node's output.
CallKeys == {"a", "b", "c"}
VarRank == [k \in CallKeys |-> CASE k = "a" -> 1 [] k = "b" -> 2 [] k = "c" -> 3]
CallArgs == {<<"a", "1">>, <<"a", "n1.y">>, <<"b", "1">>, <<"c", "n1.y">>}
InputMaps == DictsOver(CallArgs)
MaxCalls == 2

Orders(n) == {p \in [1..n -> 1..n] : \A i, j \in 1..n : p[i] = p[j] => i = j}

\* self.interface.create_bindings_for_inputs(input_map): one binding per
\* argument, in an order of the resolver's own (order), and the nodes the
\* values refer to.
create_bindings_for_inputs(input_map, order) ==
    [bindings |-> [i \in DOMAIN input_map |->
                      Binding(input_map[order[i]][1], input_map[order[i]][2])],
     upstream_nodes |-> {"n1" : i \in {j \in DOMAIN input_map : input_map[j][2] = "n1.y"}}]

\* sorted(bindings, key=lambda b: b.var): a stable sort.
sorted_by_var_Unsorted(bindings) == bindings
sorted_insert(b, s) ==
    LET before == SelectSeq(s, LAMBDA x : VarRank[x.var] <= VarRank[b.var])
        after == SelectSeq(s, LAMBDA x : VarRank[x.var] > VarRank[b.var])
    IN before \o <<b>> \o after
RECURSIVE sorted_by_var(_)
sorted_by_var(bindings) ==
    IF bindings = <<>> THEN <<>>
    ELSE sorted_insert(bindings[Len(bindings)],
                       sorted_by_var(SubSeq(bindings, 1, Len(bindings) - 1)))

SdkNode_init(id, upstream_nodes, bindings, sdk_workflow) ==
    [id |-> id, metadata |-> "placeholder", upstream_nodes |-> upstream_nodes,
     bindings |-> bindings, sdk_workflow |-> sdk_workflow]

\* SdkWorkflow.__call__(*args, **input_map), lines 363-381.
SdkWorkflow_call(args, input_map, order) ==
    IF Len(args) > 0 THEN Raised(StructuralError)
    ELSE LET r == create_bindings_for_inputs(input_map, order) IN
         Returned(SdkNode_init(None, r.upstream_nodes, sorted_by_var(r.bindings), "self"))

Call(args, input_map, order) ==
    /\ Len(calls) < MaxCalls
    /\ calls' = Append(calls, [args |-> args, input_map |-> input_map,
                               out |-> SdkWorkflow_call(args, input_map, order)])
    /\ UNCHANGED notcall

InitCall ==
    /\ calls = <<>>
    /\ ClosureIdle
    /\ CompileIdle
    /\ DiscoverIdle
    /\ LaunchIdle

NextCall ==
    \E args \in {<<>>, <<"1">>}, input_map \in InputMaps :
        \E order \in Orders(Len(input_map)) : Call(args, input_map, order)

SpecCall == InitCall /\ [][NextCall]_vars

(***************************************************************************)
(* Properties of register                                                  *)
(***************************************************************************)

\* C1: when register ends by raising (an error other than the client's
\* already-exists condition, raised while obtaining the client, computing the
\* closure or in create_workflow), workflow.id is the id the caller read before
\* the call, and the error raised inside is the one the caller gets.
C1_RollbackOnError ==
    reg_pc = "raised" =>
        /\ wf_id = reg_pre_id
        /\ reg_exc \in {"Exception", BadExecutable}
        /\ reg_exc /= AlreadyExists
        /\ reg_ret = Unset
        /\ (client_outcome /= None => reg_exc = client_outcome)

\* Each failure other than already-exists ends register by raising.
C1_Witness ==
    /\ reg_pc = "raised"
    /\ client_outcome = "Exception"
    /\ reg_pre_id /= id_to_register
    /\ wf_id = reg_pre_id

\* C2: when create_workflow reports that the id already exists, register
\* does not raise, returns the newly assigned id and leaves workflow.id at
\* that id.
C2_AlreadyExistsReturnsNewId ==
    (reg_pc = "returned" /\ client_outcome = AlreadyExists) =>
        /\ reg_exc = None
        /\ reg_ret = Str(id_to_register)
        /\ wf_id = id_to_register

\* C13: from the moment register has swapped the id in, through obtaining the
\* client, computing the closure and the create_workflow call, to its return,
\* a reader of workflow.id sees the new id; the id the caller read before the
\* call is seen again only once register has failed with an error other than
\* already-exists.
C13_NewIdDuringCall ==
    /\ reg_pc \in {"try", "client", "closure", "returned"} => wf_id = id_to_register
    /\ (reg_pc /= "idle" /\ wf_id /= id_to_register) =>
          /\ reg_pc = "raised"
          /\ reg_exc \notin {None, AlreadyExists}
          /\ wf_id = reg_pre_id

\* The network call is about to be made on a workflow whose id was another.
C13_Witness ==
    /\ reg_pc = "closure"
    /\ reg_pre_id /= id_to_register
    /\ wf_id = id_to_register

(***************************************************************************)
(* Properties of construction and promotion                                *)
(***************************************************************************)

\* Some node of the list has an upstream node object without an id.
HasUnassignedUpstream(ns) ==
    \E i \in 1..Len(ns) : \E u \in nobj[ns[i]].upstream_nodes : nobj[u].id = None

\* C3: a construction (SdkWorkflow, construct_from_class_definition) with
\* nodes N fails with the structural error if and only if some node of N has
\* an upstream node whose id is unassigned, and a failed construction has
\* synthesized no id, interface or output bindings.
C3_StructuralErrorIff ==
    cw /= Unset =>
        /\ cw.res.out.raised <=> HasUnassignedUpstream(cw.nodes)
        /\ cw.res.out.raised => (cw.res.out.exc = StructuralError /\ cw.res.steps = <<>>)

\* The second node of the class definition is the one with the unassigned
\* upstream node.
C3_Witness ==
    /\ cw /= Unset
    /\ cw.op = "construct_from_class_definition"
    /\ Len(cw.nodes) = 2
    /\ ~HasUnassignedUpstream(<<cw.nodes[1]>>)
    /\ HasUnassignedUpstream(<<cw.nodes[2]>>)
    /\ cw.res.out.raised

NodeIdSet(nodes) == {nodes[i].id : i \in 1..Len(nodes)}

\* C5: promoting the serialized template of an accepted construction yields
\* a workflow with the same interface, output bindings and set of node ids.
C5_RoundTrip ==
    (pw /= Unset /\ tmpl.source = "serialize") =>
        LET original == SdkWorkflowOf(cw.res.out.value) IN
        /\ ~pw.raised
        /\ pw.value.interface = original.interface
        /\ pw.value.outputs = original.outputs
        /\ NodeIdSet(pw.value.nodes) = NodeIdSet(original.nodes)

\* The template's nodes without START and END, and the ids they index.
RemainingNodes == get_non_system_nodes(tmpl.template.nodes)
IndexedIds == {RemainingNodes[i].id : i \in 1..Len(RemainingNodes)}
HasMissingUpstream ==
    \E i \in 1..Len(RemainingNodes) :
        \E u \in RemainingNodes[i].upstream_node_ids : u \notin IndexedIds

SystemError == "FlyteSystemException"

\* C10: promotion wires every upstream id of every remaining node through
\* the index, and an upstream id missing from the index (a stripped START or
\* END node included) aborts promotion with the system error.
C10_MissingUpstreamIsSystemError ==
    pw /= Unset =>
        /\ HasMissingUpstream => (pw.raised /\ pw.exc = SystemError)
        /\ ~pw.raised =>
              \A i \in 1..Len(pw.value.nodes) :
                  upstream_node_ids(pw.value.nodes[i]) \subseteq IndexedIds

\* Every upstream id of every node of the workflow is the id of one of its
\* nodes.
UpstreamWithinNodes(wf) ==
    \A i \in 1..Len(wf.nodes) : upstream_node_ids(wf.nodes[i]) \subseteq NodeIdSet(wf.nodes)
ConstructedWithinNodes ==
    (cw /= Unset /\ ~cw.res.out.raised) => UpstreamWithinNodes(SdkWorkflowOf(cw.res.out.value))
PromotedWithinNodes ==
    (pw /= Unset /\ ~pw.raised) => UpstreamWithinNodes(pw.value)

\* C14: in every workflow a construction or a promotion returns, each node's
\* upstream ids are ids of nodes of that workflow: a node whose upstream node
\* has an id but is not among the workflow's nodes is not accepted.
C14_UpstreamWithinNodes == ConstructedWithinNodes /\ PromotedWithinNodes

\* The ids directly upstream of the nodes whose id is in S, and the ids
\* upstream of S in one or more steps.
UpstreamOf(wf, S) ==
    UNION {upstream_node_ids(wf.nodes[i]) : i \in {j \in 1..Len(wf.nodes) : wf.nodes[j].id \in S}}
RECURSIVE UpstreamClosure(_, _)
UpstreamClosure(wf, S) ==
    LET next == S \cup UpstreamOf(wf, S) IN
    IF next = S THEN S ELSE UpstreamClosure(wf, next)
Acyclic(wf) ==
    \A i \in 1..Len(wf.nodes) :
        wf.nodes[i].id \notin UpstreamClosure(wf, UpstreamOf(wf, {wf.nodes[i].id}))
ConstructedAcyclic ==
    (cw /= Unset /\ ~cw.res.out.raised) => Acyclic(SdkWorkflowOf(cw.res.out.value))
PromotedAcyclic ==
    (pw /= Unset /\ ~pw.raised) => Acyclic(pw.value)

\* C15: in every workflow a construction or a promotion returns, the nodes
\* with their upstream references form a directed acyclic graph: no node is
\* upstream of itself, directly or through other nodes.
C15_NoUpstreamCycle == ConstructedAcyclic /\ PromotedAcyclic

(***************************************************************************)
(* Properties of discovery                                                 *)
(***************************************************************************)

\* The attribute paths of the class, level by level and with no object left
\* out for having been seen: level 0 is the attributes in dir() order, and a
\* level's paths are followed, in order, by the paths of their elements.
PathChildren(item) ==
    IF TypeOf(item[2]) = "list"
    THEN [i \in 1..Len(surface.list) |->
             <<item[1] \o <<"[", ToString(i - 1), "]">>, surface.list[i]>>]
    ELSE IF TypeOf(item[2]) = "dict"
    THEN [i \in 1..Len(surface.dict) |->
             <<item[1] \o <<"[", KeyText(surface.dict[i].key), "]">>, surface.dict[i].key>>]
         \o [i \in 1..Len(surface.dict) |->
                <<item[1] \o <<"[", KeyText(surface.dict[i].key), "]">>,
                  surface.dict[i].value>>]
    ELSE <<>>

RECURSIVE PathsBelow(_)
PathsBelow(level) ==
    IF level = <<>> THEN <<>> ELSE PathChildren(Head(level)) \o PathsBelow(Tail(level))

\* Two containers: the first path to an object passes each at most once, so
\* it is at level 2 at most.
PathLevel0 == [i \in 1..Len(AttrNames) |-> <<<<AttrNames[i]>>, surface.attrs[AttrNames[i]]>>]
AllPaths ==
    LET level1 == PathsBelow(PathLevel0)
        level2 == PathsBelow(level1)
    IN PathLevel0 \o level1 \o level2

PathsTo(paths, x) == {i \in 1..Len(paths) : paths[i][2] = x}
\* The name of the breadth-first first path to x.
FirstName(paths, x) ==
    LET to == PathsTo(paths, x) IN paths[CHOOSE i \in to : \A j \in to : i <= j][1]

Occurrences(seq, x) == Cardinality({i \in 1..Len(seq) : seq[i] = x})
CollectedIn(x) ==
    CASE TypeOf(x) = "SdkNode" -> disc.value.nodes
      [] TypeOf(x) = "Input" -> disc.value.inputs
      [] TypeOf(x) = "Output" -> disc.value.outputs
Entities == {"N1", "I1", "O1"}

\* C4: when discovery returns, every Input, Output and Node object the
\* class reaches, however many attribute paths reach it, is in its list
\* exactly once and bears the name of the breadth-first first path to it.
C4_CollectedOnceFirstName ==
    (disc /= Unset /\ ~disc.raised) =>
        LET paths == AllPaths IN
        \A x \in Entities :
            /\ Occurrences(disc.value.inputs \o disc.value.outputs \o disc.value.nodes, x)
                  = (IF PathsTo(paths, x) = {} THEN 0 ELSE 1)
            /\ PathsTo(paths, x) /= {} =>
                  /\ Occurrences(CollectedIn(x), x) = 1
                  /\ disc.value.names[x] = FirstName(paths, x)

\* The node is the first element of the list at attribute a, an element of
\* the dict and the attribute b itself: it is collected once, as b.
C4_Witness ==
    /\ disc /= Unset
    /\ ~disc.raised
    /\ surface.attrs["a"] = "L1"
    /\ surface.attrs["b"] = "N1"
    /\ surface.list = <<"N1", "D1">>
    /\ surface.dict = <<[key |-> "N1", value |-> "N1"]>>
    /\ disc.value.nodes = <<"N1">>
    /\ disc.value.names["N1"] = <<"b">>

\* x is reached, and only inside a container.
NestedOnly(paths, x) ==
    /\ PathsTo(paths, x) /= {}
    /\ \A n \in AttrSet : surface.attrs[n] /= x

\* C9: discovery fails with the placement error exactly when some Input or
\* Output is reached only inside a container, naming the nested path; an
\* Input or Output that is an attribute's value is collected under (the
\* first of) its attribute names.
C9_PlacementError ==
    disc /= Unset =>
        LET paths == AllPaths IN
        /\ disc.raised <=> \E x \in {"I1", "O1"} : NestedOnly(paths, x)
        /\ disc.raised =>
              /\ disc.exc = PlacementError
              /\ \E x \in {"I1", "O1"} :
                    NestedOnly(paths, x) /\ disc.at = FirstName(paths, x)
        /\ ~disc.raised =>
              \A x \in {"I1", "O1"} : \A i \in 1..Len(AttrNames) :
                  (surface.attrs[AttrNames[i]] = x
                   /\ \A j \in 1..(i - 1) : surface.attrs[AttrNames[j]] /= x) =>
                      /\ Occurrences(CollectedIn(x), x) = 1
                      /\ disc.value.names[x] = <<AttrNames[i]>>

\* The output is an attribute's value and is also in the list; the input is
\* only the value of the dict that is an element of the list.
C9_Witness ==
    /\ disc /= Unset
    /\ disc.raised
    /\ surface.attrs["a"] = "L1"
    /\ surface.attrs["b"] = "O1"
    /\ surface.list = <<"O1", "D1">>
    /\ surface.dict = <<[key |-> "S", value |-> "I1"]>>
    /\ disc.at = <<"a", "[", "1", "]", "[", "'k'", "]">>

\* Both are attribute values: nothing is raised.
C9_WitnessTopLevel ==
    /\ disc /= Unset
    /\ ~disc.raised
    /\ surface.attrs["a"] = "O1"
    /\ surface.attrs["b"] = "I1"
    /\ disc.value.names["O1"] = <<"a">>

(***************************************************************************)
(* Properties of get_sub_workflows                                         *)
(***************************************************************************)

\* A node that get_sub_workflows descends into.
IsSubWorkflowNode(n) ==
    /\ n.type = "workflow"
    /\ n.sub_workflow_ref /= None
    /\ n.executable_sdk_object \in Workflows

\* The walks from the root: a path <<i1, ..., ik>> takes node i1 of the root,
\* node i2 of the workflow that node runs, and so on.
RECURSIVE PathTarget(_, _)
PathTarget(w, p) ==
    IF p = <<>> THEN w
    ELSE IF w = None \/ Head(p) > Len(wfnodes[w]) THEN None
    ELSE IF ~IsSubWorkflowNode(wfnodes[w][Head(p)]) THEN None
    ELSE PathTarget(wfnodes[w][Head(p)].executable_sdk_object, Tail(p))

PathDepth == Cardinality(Workflows) - 1
Paths ==
    {p \in UNION {[1..k -> 1..MaxNodes + 1] : k \in 1..PathDepth} :
        PathTarget(RootWf, p) /= None}

\* p comes before q in depth-first pre-order: p is a proper prefix of q, or p
\* takes the earlier node where they first differ.
Before(p, q) ==
    \/ Len(p) < Len(q) /\ \A i \in 1..Len(p) : p[i] = q[i]
    \/ \E i \in 1..Len(p) :
          /\ i <= Len(q)
          /\ p[i] < q[i]
          /\ \A j \in 1..(i - 1) : p[j] = q[j]

PreOrderRank(p) == 1 + Cardinality({q \in Paths : Before(q, p)})

\* C6: get_sub_workflows returns the empty sequence when no node of the
\* workflow is a sub-workflow node, and otherwise the sub-workflows in
\* depth-first pre-order of the walk, one entry per walk that reaches a
\* sub-workflow (so one referenced by k nodes along the walk appears k times);
\* task, branch and launch plan nodes add nothing.
C6_PreOrderClosure ==
    (closure_out /= Unset /\ closure_out.op = "get_sub_workflows"
        /\ ~closure_out.out.raised) =>
        LET r == closure_out.out.value IN
        /\ Len(r) = Cardinality(Paths)
        /\ \A p \in Paths : r[PreOrderRank(p)] = PathTarget(RootWf, p)
        /\ ((\A i \in 1..Len(wfnodes[RootWf]) :
                wfnodes[RootWf][i].sub_workflow_ref = None) => r = <<>>)

\* Two nodes of the root run W1, whose node runs W2.
C6_Witness ==
    /\ closure_out /= Unset
    /\ closure_out.op = "get_sub_workflows"
    /\ ~closure_out.out.raised
    /\ closure_out.out.value = <<"W1", "W2", "W1", "W2">>

(***************************************************************************)
(* Properties of the closure's failure                                     *)
(***************************************************************************)

\* A node with a sub-workflow reference whose executable is absent or is not
\* a compiled workflow.
IsBadSubWorkflowNode(n) ==
    /\ n.type = "workflow"
    /\ n.sub_workflow_ref /= None
    /\ n.executable_sdk_object \notin Workflows

\* The workflows the walk from the root can reach, and whether one of them
\* holds such a node.
ReachedWorkflows == {RootWf} \cup {PathTarget(RootWf, p) : p \in Paths}
BadNodeReached ==
    \E w \in ReachedWorkflows : \E i \in 1..Len(wfnodes[w]) : IsBadSubWorkflowNode(wfnodes[w][i])

\* C11: get_sub_workflows raises the system error, with no result, exactly
\* when the walk from the root reaches at some depth a sub-workflow node whose
\* executable is absent or not a compiled workflow; serialize then fails with
\* the same error and emits no spec; register then never reaches
\* create_workflow, and once it has its client it fails with that error.
C11_BadExecutableAborts ==
    /\ (reg_pc = "idle" /\ closure_out /= Unset) =>
          /\ closure_out.out.raised <=> BadNodeReached
          /\ closure_out.out.raised =>
                /\ closure_out.out.exc = BadExecutable
                /\ "value" \notin DOMAIN closure_out.out
    /\ BadNodeReached =>
          /\ reg_pc \notin {"closure", "returned"}
          /\ client_outcome = None
          /\ reg_pc = "raised" =>
                /\ reg_exc \in {BadExecutable, "Exception"}
                /\ reg_ret = Unset
    /\ (reg_pc = "raised" /\ reg_exc = BadExecutable) =>
          /\ BadNodeReached
          /\ client_outcome = None
          /\ wf_id = reg_pre_id

\* serialize failed on a node two workflows below the root.
C11_Witness ==
    /\ reg_pc = "idle"
    /\ closure_out /= Unset
    /\ closure_out.op = "serialize"
    /\ closure_out.out.raised
    /\ wfnodes["W0"] = <<SubWorkflowNode("W1")>>
    /\ wfnodes["W1"] = <<SubWorkflowNode("W2")>>
    /\ wfnodes["W2"] = <<SubWorkflowNode(None)>>

\* register failed on a node one workflow below the root.
C11_WitnessRegister ==
    /\ reg_pc = "raised"
    /\ reg_exc = BadExecutable
    /\ wfnodes["W0"] = <<TaskNode, SubWorkflowNode("W1")>>
    /\ wfnodes["W1"] = <<SubWorkflowNode("task")>>

(***************************************************************************)
(* Properties of create_launch_plan                                        *)
(***************************************************************************)

\* The names of the default and of the fixed inputs of a launch plan.
DefaultNames(plan) ==
    IF plan.cls = "SdkLaunchPlan" THEN Keys(plan.default_inputs.parameters)
    ELSE Keys(plan.default_inputs)
FixedNames(plan) ==
    IF plan.cls = "SdkLaunchPlan" THEN Keys(plan.fixed_inputs.literals)
    ELSE Keys(plan.fixed_inputs)

\* C7: create_launch_plan with a name both in fixed_inputs and in the caller's
\* default_inputs fails with an error, and no launch plan it returns has a
\* name in both its fixed and its default inputs.
C7_OverlapFails ==
    lp /= Unset =>
        /\ Keys(lp.default_inputs) \cap Keys(lp.fixed_inputs) /= {} => lp.out.raised
        /\ ~lp.out.raised => DefaultNames(lp.out.value) \cap FixedNames(lp.out.value) = {}

\* The declared inputs of the workflow under the names they were declared
\* with, as a set of (name, object) pairs.
DeclaredInputs == {<<DeclaredName[wf_inputs[i]], wf_inputs[i]>> : i \in DOMAIN wf_inputs}

\* C12: the default inputs of the launch plan PythonWorkflow.create_launch_plan
\* returns are the originally declared inputs whose name is not fixed,
\* overridden and extended by the caller's default_inputs, and each entry's
\* Input carries the entry's key as its name.
C12_MergedDefaultInputs ==
    (lp /= Unset /\ lp.op = "PythonWorkflow.create_launch_plan" /\ ~lp.out.raised) =>
        LET merged == lp.out.value.default_inputs
            kept == {kv \in DeclaredInputs : kv[1] \notin Keys(lp.fixed_inputs)
                                              /\ kv[1] \notin Keys(lp.default_inputs)}
        IN /\ Items(merged) = kept \cup Items(lp.default_inputs)
           /\ \A kv \in Items(merged) : in_name[kv[2]] = kv[1]

(***************************************************************************)
(* Properties of SdkWorkflow.__call__                                      *)
(***************************************************************************)


\* C8: a call with keyword arguments yields a node without an id whose
\* bindings are the arguments' bindings in ascending order of variable name;
\* two calls with the same name-to-value mapping, whatever the order of the
\* arguments, yield the same binding sequence.
C8_BindingsSortedByVar ==
    \A i \in DOMAIN calls :
        (calls[i].args = <<>>) =>
            /\ ~calls[i].out.raised
            /\ LET node == calls[i].out.value IN
               /\ node.id = None
               /\ Len(node.bindings) = Len(calls[i].input_map)
               /\ {<<b.var, b.binding>> : b \in Items(node.bindings)}
                     = Items(calls[i].input_map)
               /\ \A j \in 1..(Len(node.bindings) - 1) :
                     VarRank[node.bindings[j].var] < VarRank[node.bindings[j + 1].var]
               /\ \A k \in DOMAIN calls :
                     (calls[k].args = <<>>
                      /\ Items(calls[k].input_map) = Items(calls[i].input_map))
                         => calls[k].out.value.bindings = node.bindings

\* Two calls with the same mapping, the arguments in different orders, the
\* first of them not in the order of the names.
C8_Witness ==
    /\ Len(calls) = 2
    /\ calls[1].args = <<>> /\ calls[2].args = <<>>
    /\ Len(calls[1].input_map) = 3
    /\ calls[1].input_map /= calls[2].input_map
    /\ Items(calls[1].input_map) = Items(calls[2].input_map)
    /\ VarRank[calls[1].input_map[1][1]] > VarRank[calls[1].input_map[2][1]]
    /\ ~calls[1].out.raised /\ ~calls[2].out.raised
    /\ calls[1].out.value.bindings = calls[2].out.value.bindings

====
